---------------------------- MODULE Spec2Model ----------------------------
(***************************************************************************)
(* A model of the two stateful parts of the trading-rl repository:         *)
(*                                                                         *)
(*   - MarketEnv (src/src/market_env.py): the single-asset step engine,    *)
(*     specification SpecEnv;                                              *)
(*   - the trading-minute calendar and the timestamp repair               *)
(*     (src/scripts/fix_integer_datetime_to_ts.py), specification SpecFix. *)
(*                                                                         *)
(* Floating-point values are modelled as exact rationals [n, d] (d > 0);   *)
(* prices and feature values are integers.  Dates are civil triples        *)
(* <<y, m, d>> (the "%Y-%m-%d" strings of the code); timestamps are minutes*)
(* since 1970-01-01 00:00.                                                 *)
(***************************************************************************)
EXTENDS Integers, Sequences, FiniteSets, TLC

VARIABLES
    \* ---- MarketEnv: constructor arguments and fields
    features, prices, window, transaction_cost, T,
    t, position, last_price, done,
    \* ---- MarketEnv: the caller's view
    obj,        \* "new" (before __init__), "live", "failed" (__init__ raised)
    res,        \* what the last call returned or raised
    prev,       \* the fields as they were when the last call was entered
    ep,         \* the successful steps of the current episode, in order
    was_reset,  \* reset() was called since __init__
    \* ---- fix_integer_datetime_to_ts.py
    pc,         \* position in main()
    start_date, end_date,   \* args.start, args.end
    columns,    \* df.columns
    df,         \* the input table, one record per row
    n,          \* len(df)
    days,       \* the business days of the base range
    cur_days,   \* extend_days_until_length's list
    ts,         \* the last DatetimeIndex built
    base,       \* the calendar of the base range (line 46)
    full_len,   \* len of the calendar build_minutes_sequence truncates
    out,        \* the table handed to to_csv, <<>> while nothing is written
    \* ---- download_akshare_minute.py
    feed_pc,    \* position in download_minute_range_and_save
    prefixes, prefix_i,     \* the prefixes and the one being tried (1-based)
    feed_days, day_i,       \* the trading days and the one being fetched (1-based)
    df_raw,     \* what ak.stock_zh_a_minute returned for the day
    df_day,     \* what parse_and_normalize_minute_df returned for it
    frames, failed_days,    \* the two lists of the current prefix
    saved       \* the table written by to_csv, NoTable while nothing is written

envVars == <<features, prices, window, transaction_cost, T,
             t, position, last_price, done, obj, res, prev, ep, was_reset>>
fixVars == <<pc, start_date, end_date, columns, df, n, days, cur_days, ts,
             base, full_len, out>>
feedVars == <<feed_pc, prefixes, prefix_i, feed_days, day_i, df_raw, df_day,
              frames, failed_days, saved>>
vars == <<envVars, fixVars, feedVars>>

----------------------------------------------------------------------------
(* Bounds of the model *)

\* longest price series
MaxT == 3
\* consecutive calendar days the start and end dates are drawn from
SpanDays == 4
\* row counts go up to MaxSessions full sessions (plus a remainder)
MaxSessions == 2
\* rows of a provider payload
MaxFeedRows == 2
\* calendar days of the download range
FeedSpan == 1

----------------------------------------------------------------------------
(* Generic helpers *)

Abs(x) == IF x < 0 THEN -x ELSE x

Range(s) == {s[i] : i \in 1..Len(s)}

Last(s) == s[Len(s)]

StrictlyIncreasing(s) == \A i \in 1..(Len(s) - 1) : s[i] < s[i + 1]

\* exact rationals
Rat(a, b) == [n |-> a, d |-> b]
RSub(x, y) == Rat(x.n * y.d - y.n * x.d, x.d * y.d)
RScale(k, x) == Rat(k * x.n, x.d)
REq(x, y) == x.n * y.d = y.n * x.d
RZero == Rat(0, 1)

\* Python's s[i] on a sequence: 0-based, a negative index counts from the end
PyIndexOK(s, i) == -Len(s) <= i /\ i < Len(s)
PyIndex(s, i) == IF i < 0 THEN s[Len(s) + i + 1] ELSE s[i + 1]

\* Python's s[a:b] for 0 <= a, 0 <= b (both are clamped to the length)
Min(a, b) == IF a < b THEN a ELSE b
PySlice(s, a, b) ==
    LET lo == Min(a, Len(s))
        hi == Min(b, Len(s))
    IN  IF hi <= lo THEN <<>> ELSE SubSeq(s, lo + 1, hi)

----------------------------------------------------------------------------
(* MarketEnv *)

\* numpy's astype(np.float32) on an integer-valued float64: 24 significant
\* bits, ties to even (exact below 2^24; the model stays below 2^25)
TwoTo24 == 16777216
Float32(x) ==
    LET a == Abs(x)
        r == IF a < TwoTo24 THEN a
             ELSE LET q == a \div 2
                  IN  IF a % 2 = 0 THEN a
                      ELSE IF q % 2 = 0 THEN 2 * q ELSE 2 * (q + 1)
    IN  IF x < 0 THEN -r ELSE r

AsFloat32(rows) == [i \in 1..Len(rows) |-> Float32(rows[i])]

\* _get_obs with the fields given
GetObs(feat, tt, w) == AsFloat32(PySlice(feat, tt - w, tt))

ZerosLike(rows) == [i \in 1..Len(rows) |-> 0]

\* pos_map
PosMapKeys == {0, 1, 2}
pos_map(a) == CASE a = 0 -> 0 [] a = 1 -> 1 [] a = 2 -> -1

\* the actions a caller passes: hold, long, short, and one outside pos_map
Actions == {0, 1, 2, 3}

\* the values the inputs are drawn from
PriceVals == {99, 100, 101}
TcVals == {Rat(0, 1), Rat(1, 100)}
FeatureTables(len) ==
    {[i \in 1..len |-> i - 1], [i \in 1..len |-> TwoTo24 + i]}

Fields == [t |-> t, position |-> position, last_price |-> last_price, done |-> done]

NoRes == [op |-> "none", kind |-> "none"]
NoFields == [t |-> 0, position |-> 0, last_price |-> 0, done |-> FALSE]

EnvStart ==
    /\ T \in 0..MaxT
    /\ prices \in [1..T -> PriceVals]
    /\ features \in FeatureTables(T)
    /\ window \in 0..(T + 1)
    /\ transaction_cost \in TcVals
    /\ t = 0 /\ position = 0 /\ last_price = 0 /\ done = FALSE
    /\ obj = "new"
    /\ res = NoRes
    /\ prev = NoFields
    /\ ep = <<>>
    /\ was_reset = FALSE

\* a reset() that keeps the held position
ResetKeepsPosition(f) ==
    IF PyIndexOK(prices, window - 1)
    THEN [fields |-> [t |-> window, position |-> f.position,
                      last_price |-> PyIndex(prices, window - 1), done |-> FALSE],
          res |-> [op |-> "reset", kind |-> "obs",
                   obs |-> GetObs(features, window, window)]]
    ELSE [fields |-> [f EXCEPT !.t = window],
          res |-> [op |-> "reset", kind |-> "IndexError"]]

\* reset(): the assignments of lines 26-29 and the observation of line 30;
\* prices[self.t - 1] raises IndexError when window - 1 is no index of prices,
\* after t and position are assigned
ResetFn(f) ==
    IF PyIndexOK(prices, window - 1)
    THEN [fields |-> [t |-> window, position |-> 0,
                      last_price |-> PyIndex(prices, window - 1), done |-> FALSE],
          res |-> [op |-> "reset", kind |-> "obs",
                   obs |-> GetObs(features, window, window)]]
    ELSE [fields |-> [f EXCEPT !.t = window, !.position = 0],
          res |-> [op |-> "reset", kind |-> "IndexError"]]

\* step() without its done check
StepErrorNoDoneCheck(f, action) ==
    IF action \notin PosMapKeys THEN "KeyError"
    ELSE IF ~PyIndexOK(prices, f.t) THEN "IndexError"
    ELSE "none"

\* the exception step() raises before it changes anything, "none" if it raises
\* none: the done check, pos_map[int(action)], prices[self.t]
StepError(f, action) ==
    IF f.done THEN "RuntimeError"
    ELSE IF action \notin PosMapKeys THEN "KeyError"
    ELSE IF ~PyIndexOK(prices, f.t) THEN "IndexError"
    ELSE "none"

\* a cost that forgets the magnitude of the change
StepTcFlat(new_pos, pos, cost) ==
    IF new_pos # pos THEN cost ELSE RZero

\* the transaction cost of lines 43-45
StepTc(new_pos, pos, cost) ==
    IF new_pos # pos THEN RScale(Abs(new_pos - pos), cost) ELSE RZero

\* a return taken over the new price instead of the last one
StepPnlOverNewPrice(pos, price, last) == Rat(pos * (price - last), price)

\* the pnl of lines 41-42
StepPnl(pos, price, last) == Rat(pos * (price - last), last)

\* a done flag that waits for t to pass T
StepDoneLate(tt, len, d) == IF tt > len THEN TRUE ELSE d

\* the done flag after lines 49-51
StepDone(tt, len, d) == IF tt >= len THEN TRUE ELSE d

\* step(action) on the fields f: the fields after it and what it returns or raises
StepFn(f, action) ==
    LET err == StepError(f, action)
    IN  IF err # "none"
        THEN [fields |-> f, res |-> [op |-> "step", kind |-> err, action |-> action]]
        ELSE LET new_pos == pos_map(action)
                 price == PyIndex(prices, f.t)
                 pnl == StepPnl(f.position, price, f.last_price)
                 tc == StepTc(new_pos, f.position, transaction_cost)
                 reward == RSub(pnl, tc)
                 nt == f.t + 1
                 nd == StepDone(nt, T, f.done)
                 o == GetObs(features, nt, window)
             IN  [fields |-> [t |-> nt, position |-> new_pos,
                              last_price |-> price, done |-> nd],
                  res |-> [op |-> "step", kind |-> "step", action |-> action,
                           index |-> f.t,
                           obs |-> IF ~nd THEN o ELSE ZerosLike(o),
                           reward |-> reward, done |-> nd,
                           info |-> [pnl |-> pnl, tc |-> tc]]]

SetFields(f) ==
    /\ t' = f.t
    /\ position' = f.position
    /\ last_price' = f.last_price
    /\ done' = f.done

\* __init__: stores its arguments and calls reset(); an exception leaves no object
Construct ==
    /\ obj = "new"
    /\ LET r == ResetFn(Fields)
       IN  /\ SetFields(r.fields)
           /\ res' = [r.res EXCEPT !.op = "init"]
           /\ obj' = IF r.res.kind = "obs" THEN "live" ELSE "failed"
    /\ prev' = Fields
    /\ ep' = <<>>
    /\ UNCHANGED <<features, prices, window, transaction_cost, T, was_reset, fixVars, feedVars>>

Reset ==
    /\ obj = "live"
    /\ LET r == ResetFn(Fields)
       IN  /\ SetFields(r.fields)
           /\ res' = r.res
    /\ prev' = Fields
    /\ ep' = <<>>
    /\ was_reset' = TRUE
    /\ UNCHANGED <<features, prices, window, transaction_cost, T, obj, fixVars, feedVars>>

Step(action) ==
    /\ obj = "live"
    /\ LET r == StepFn(Fields, action)
       IN  /\ SetFields(r.fields)
           /\ res' = r.res
           /\ ep' = IF r.res.kind = "step" THEN Append(ep, r.res) ELSE ep
    /\ prev' = Fields
    /\ UNCHANGED <<features, prices, window, transaction_cost, T, obj, was_reset, fixVars, feedVars>>

StepAny == \E action \in Actions : Step(action)

\* the None a provider call or parse_and_normalize_minute_df can return, and
\* the value of a name that is not bound yet
NoneTable == [kind |-> "None"]
Unbound == [kind |-> "unbound"]

\* download_minute_range_and_save is not running
FeedIdle ==
    /\ feed_pc = "off" /\ prefixes = <<>> /\ prefix_i = 0 /\ feed_days = <<>>
    /\ day_i = 0 /\ df_raw = Unbound /\ df_day = Unbound /\ frames = <<>>
    /\ failed_days = <<>> /\ saved = Unbound

FixIdle ==
    /\ pc = "off" /\ start_date = <<>> /\ end_date = <<>> /\ columns = {} /\ df = <<>>
    /\ n = 0 /\ days = <<>> /\ cur_days = <<>> /\ ts = <<>> /\ base = <<>>
    /\ full_len = 0 /\ out = <<>>

InitEnv == EnvStart /\ FixIdle /\ FeedIdle

NextEnv == Construct \/ Reset \/ StepAny

SpecEnv == InitEnv /\ [][NextEnv]_vars

----------------------------------------------------------------------------
(* fix_integer_datetime_to_ts.py: dates and the trading-minute calendar *)

\* "%Y-%m-%d" -> days since 1970-01-01 (what pd.to_datetime and the date part
\* of pd.date_range's string arguments compute), proleptic Gregorian
Ordinal(date) ==
    LET y0 == date[1]
        m == date[2]
        d == date[3]
        y == IF m <= 2 THEN y0 - 1 ELSE y0
        era == y \div 400
        yoe == y - era * 400
        mp == IF m > 2 THEN m - 3 ELSE m + 9
        doy == (153 * mp + 2) \div 5 + d - 1
        doe == yoe * 365 + yoe \div 4 - yoe \div 100 + doy
    IN  era * 146097 + doe - 719468

\* days since 1970-01-01 -> "%Y-%m-%d" (strftime)
Strftime(z0) ==
    LET z == z0 + 719468
        era == z \div 146097
        doe == z - era * 146097
        yoe == (doe - doe \div 1460 + doe \div 36524 - doe \div 146096) \div 365
        doy == doe - (365 * yoe + yoe \div 4 - yoe \div 100)
        mp == (5 * doy + 2) \div 153
        d == doy - (153 * mp + 2) \div 5 + 1
        m == IF mp < 10 THEN mp + 3 ELSE mp - 9
        y == yoe + era * 400
    IN  <<IF m <= 2 THEN y + 1 ELSE y, m, d>>

\* datetime.weekday(): Monday is 0 (1970-01-01 was a Thursday)
Weekday(z) == (z + 3) % 7

\* the first date the start and end dates are drawn from (a Friday)
FirstDate == <<2025, 12, 26>>

DateChoices == {Strftime(Ordinal(FirstDate) + k) : k \in 0..(SpanDays - 1)}

\* minutes of the day and of the session bounds "09:30", "11:30", "13:00", "15:00"
MinutesPerDay == 1440
MorningStart == 570
MorningEnd == 690
AfternoonStart == 780
AfternoonEnd == 900

\* pd.Timestamp(f"{d} HH:MM") as minutes since the epoch
Stamp(date, minute) == Ordinal(date) * MinutesPerDay + minute

\* pd.date_range(a, b, freq="1min"), both ends included
DateRange(a, b) == IF b < a THEN <<>> ELSE [i \in 1..(b - a + 1) |-> a + i - 1]

\* a session that leaves out the last minute of the morning
DaySessionsHalfOpen(date) ==
    DateRange(Stamp(date, MorningStart), Stamp(date, MorningEnd) - 1)
        \o DateRange(Stamp(date, AfternoonStart), Stamp(date, AfternoonEnd))

\* morning.append(afternoon) of one day (lines 20-22)
DaySessions(date) ==
    DateRange(Stamp(date, MorningStart), Stamp(date, MorningEnd))
        \o DateRange(Stamp(date, AfternoonStart), Stamp(date, AfternoonEnd))

RECURSIVE Concatenate(_)
Concatenate(parts) ==
    IF parts = <<>> THEN <<>> ELSE Head(parts) \o Concatenate(Tail(parts))

trading_minutes_for_days(ds) ==
    LET parts == [i \in 1..Len(ds) |-> DaySessions(ds[i])]
    IN  IF parts # <<>> THEN Concatenate(parts) ELSE <<>>

\* pd.bdate_range(start, end, freq='C').strftime("%Y-%m-%d").tolist():
\* the Monday-Friday days of [start, end], ascending
IsBusinessDay(z) == Weekday(z) < 5
bdate_range(s, e) ==
    LET a == Ordinal(s)
        b == Ordinal(e)
        all == IF b < a THEN <<>> ELSE [i \in 1..(b - a + 1) |-> a + i - 1]
        kept == SelectSeq(all, IsBusinessDay)
    IN  [i \in 1..Len(kept) |-> Strftime(kept[i])]

\* a weekend test that lets Saturday through
RECURSIVE SkipSundays(_)
SkipSundays(z) == IF Weekday(z) > 5 THEN SkipSundays(z + 1) ELSE z

\* lines 39-40: while nxt.weekday() >= 5: nxt += 1 day
RECURSIVE SkipWeekend(_)
SkipWeekend(z) == IF Weekday(z) >= 5 THEN SkipWeekend(z + 1) ELSE z

\* lines 36-41: the day appended after the last one
NextDay(last_day) == Strftime(SkipWeekend(Ordinal(last_day) + 1))

\* no truncation at all
KeepAll(idx, k) == idx

\* idx[:k] for k >= 0
Truncate(idx, k) == PySlice(idx, 0, k)

----------------------------------------------------------------------------
(* fix_integer_datetime_to_ts.py: main() *)

\* the minutes of one day's two sessions
SessionLen == (MorningEnd - MorningStart + 1) + (AfternoonEnd - AfternoonStart + 1)

IntCell(v) == [k |-> "int", v |-> v]
TextCell == [k |-> "text", v |-> 0]
\* the float v + 0.5
HalfCell(v) == [k |-> "float", v |-> v]

\* the 'datetime' columns the input table is drawn with: the counter 0,1,2,...,
\* the same counter backwards, and a column of text
CounterTables(len) ==
    {[i \in 1..len |-> IntCell(i - 1)],
     [i \in 1..len |-> IntCell(len - i)],
     [i \in 1..len |-> TextCell]}

\* head(10)
FirstRows == 10

\* columns that are no counter: the integers 5,3,9,5,3,9,..., the floats
\* 0.5,1.5,..., and the counter for ten rows followed by text or by floats
OtherTables(len) ==
    {[i \in 1..len |-> IntCell(<<5, 3, 9>>[((i - 1) % 3) + 1])],
     [i \in 1..len |-> HalfCell(i - 1)],
     [i \in 1..len |-> IF i <= FirstRows THEN IntCell(i - 1) ELSE TextCell],
     [i \in 1..len |-> IF i <= FirstRows THEN IntCell(i - 1) ELSE HalfCell(i - 1)]}

\* the columns that are no counter are drawn for tables of at most one session
ColumnTables(len) ==
    CounterTables(len) \cup (IF len <= SessionLen THEN OtherTables(len) ELSE {})

\* the other column of row i
CloseOf(i) == 100 + ((7 * i) % 11)

Remainders == {0, 1, 122}
RowCounts == {s * SessionLen + r : s \in 0..MaxSessions, r \in Remainders}

\* the state once pd.read_csv has returned (line 65)
FixStart ==
    /\ pc = "read"
    /\ start_date \in DateChoices
    /\ end_date \in DateChoices
    /\ n \in RowCounts
    /\ \E col \in ColumnTables(n) :
         df = [i \in 1..n |-> [datetime |-> col[i], close |-> CloseOf(i)]]
    /\ columns \in {{"datetime", "close"}, {"time", "close"}}
    /\ columns = {"time", "close"} => (n > 0 /\ df[1].datetime = IntCell(0))
    /\ days = <<>> /\ cur_days = <<>> /\ ts = <<>> /\ base = <<>>
    /\ full_len = 0 /\ out = <<>>

EnvIdle ==
    /\ T = 0 /\ prices = <<>> /\ features = <<>> /\ window = 0
    /\ transaction_cost = RZero
    /\ t = 0 /\ position = 0 /\ last_price = 0 /\ done = FALSE
    /\ obj = "off" /\ res = NoRes /\ prev = NoFields /\ ep = <<>>
    /\ was_reset = FALSE

\* df['datetime'].dropna().astype(int) raises on a cell int() cannot convert
\* and truncates a float
DropNa(col) == SelectSeq(col, LAMBDA c : c.k # "nan")
AsTypeIntRaises(col) == \E i \in 1..Len(col) : col[i].k = "text"
AsTypeInt(col) == [i \in 1..Len(col) |-> col[i].v]

\* lines 70-74
is_int_seq ==
    LET col == DropNa([i \in 1..Len(df) |-> df[i].datetime])
    IN  IF AsTypeIntRaises(col) THEN FALSE
        ELSE LET sample_vals == PySlice(AsTypeInt(col), 0, FirstRows)
             IN  \A i \in 1..Len(sample_vals) : sample_vals[i] \in Int

\* lines 66-80: the checks of the time column
Validate ==
    /\ pc = "read"
    /\ pc' = IF "datetime" \notin columns THEN "SystemExit"
             ELSE IF ~is_int_seq THEN "SystemExit"
             ELSE "build"
    /\ UNCHANGED <<start_date, end_date, columns, df, n, days, cur_days, ts,
                   base, full_len, out, envVars,
                   feedVars>>

\* build_minutes_sequence up to its first return or its call of
\* extend_days_until_length (lines 45-50)
BuildBase ==
    /\ pc = "build"
    /\ LET ds == bdate_range(start_date, end_date)
           idx == trading_minutes_for_days(ds)
       IN  /\ days' = ds
           /\ base' = idx
           /\ IF Len(idx) >= n
              THEN /\ ts' = Truncate(idx, n)
                   /\ full_len' = Len(idx)
                   /\ pc' = "check"
                   /\ UNCHANGED cur_days
              ELSE /\ ts' = idx
                   /\ cur_days' = ds
                   /\ pc' = "extend"
                   /\ UNCHANGED full_len
    /\ UNCHANGED <<start_date, end_date, columns, df, n, out, envVars,
                   feedVars>>

\* one iteration of extend_days_until_length's loop (lines 31-41); the return
\* goes through line 51; cur_days[-1] raises IndexError on an empty list
ExtendIter ==
    /\ pc = "extend"
    /\ LET idx == trading_minutes_for_days(cur_days)
       IN  IF Len(idx) >= n
           THEN /\ ts' = Truncate(idx, n)
                /\ full_len' = Len(idx)
                /\ pc' = "check"
                /\ UNCHANGED cur_days
           ELSE IF cur_days = <<>>
           THEN /\ ts' = idx
                /\ pc' = "IndexError"
                /\ UNCHANGED <<cur_days, full_len>>
           ELSE /\ ts' = idx
                /\ cur_days' = Append(cur_days, NextDay(Last(cur_days)))
                /\ pc' = "extend"
                /\ UNCHANGED full_len
    /\ UNCHANGED <<start_date, end_date, columns, df, n, days, base, out, envVars,
                   feedVars>>

\* a rebinding that looks the timestamp up by the integer in the row (taken
\* modulo the number of timestamps)
AssignDatetimeByValue(rows, idx) ==
    [i \in 1..Len(rows) |->
        [rows[i] EXCEPT !.datetime = idx[(rows[i].datetime.v % Len(idx)) + 1]]]

\* df['datetime'] = ts[:n] (line 87): an Index is assigned by position
AssignDatetime(rows, idx) ==
    [i \in 1..Len(rows) |-> [rows[i] EXCEPT !.datetime = idx[i]]]

\* sort_index(): pandas returns the rows as they are when the index is already
\* non-decreasing, and otherwise orders them by index (ties in row order)
SortIndex(rows) ==
    IF \A i \in 1..(Len(rows) - 1) : rows[i].datetime <= rows[i + 1].datetime
    THEN rows
    ELSE LET before(j, i) ==
                 \/ rows[j].datetime < rows[i].datetime
                 \/ rows[j].datetime = rows[i].datetime /\ j < i
             rank(i) == Cardinality({j \in 1..Len(rows) : before(j, i)}) + 1
         IN  [k \in 1..Len(rows) |-> rows[CHOOSE i \in 1..Len(rows) : rank(i) = k]]

\* lines 83-93: the length check, the rebinding, set_index/sort_index, to_csv
Finish ==
    /\ pc = "check"
    /\ IF Len(ts) < n
       THEN /\ pc' = "SystemExit"
            /\ UNCHANGED out
       ELSE /\ out' = SortIndex(AssignDatetime(df, Truncate(ts, n)))
            /\ pc' = "written"
    /\ UNCHANGED <<start_date, end_date, columns, df, n, days, cur_days, ts,
                   base, full_len, envVars,
                   feedVars>>

InitFix == FixStart /\ EnvIdle /\ FeedIdle

NextFix == Validate \/ BuildBase \/ ExtendIter \/ Finish

SpecFix == InitFix /\ [][NextFix]_vars

\* the interpreter goes on with the loop of extend_days_until_length while it
\* has not returned or raised
SpecFixFair == SpecFix /\ WF_vars(ExtendIter)

----------------------------------------------------------------------------
(* scripts/download_akshare_minute.py *)

\* Column labels. The Chinese labels of the source are written in ASCII:
\* zh_time, zh_open, zh_high, zh_low, zh_close, zh_volume stand for the
\* labels of lines 52 and 112-121.
Ohlcv == <<"open", "high", "low", "close", "volume">>
PriceNames == {"open", "high", "low", "close"}

\* str.lower() on the labels of the model
Lower(c) ==
    CASE c = "Time" -> "time"
      [] c = "Open" -> "open"
      [] c = "Close" -> "close"
      [] c = "CLOSE" -> "close"
      [] c = "Volume" -> "volume"
      [] OTHER -> c

\* str.capitalize() on the five standard names
Capitalize(en) ==
    CASE en = "open" -> "Open"
      [] en = "high" -> "High"
      [] en = "low" -> "Low"
      [] en = "close" -> "Close"
      [] en = "volume" -> "Volume"

\* the first candidate of lines 52 / 62 that is the lower-case form of a
\* label, as the label itself; "" when there is none
TimeCandidates == <<"datetime", "time", "zh_time", "date">>
FindTimeCol(cols) ==
    LET hits == {k \in 1..Len(TimeCandidates) :
                    \E c \in cols : Lower(c) = TimeCandidates[k]}
    IN  IF hits = {} THEN ""
        ELSE LET k == CHOOSE k \in hits : \A j \in hits : k <= j
             IN  CHOOSE c \in cols : Lower(c) = TimeCandidates[k]

\* df.reset_index(): the index becomes a column, named "index" when it has
\* no name
ResetIndex(p) ==
    p.columns \cup {IF p.index_name = "" THEN "index" ELSE p.index_name}

\* DataFrame.empty: some axis has length 0
Empty(tab) == tab.rows = <<>> \/ tab.columns = {}

\* Time cells: "full" is a date and a time ('2025-12-26 09:30:00'), "tod" a
\* time of day ('09:30'), "secs" a count of seconds, "junk" anything else.
\* NaT is the value a cell that does not parse gets.
NaT == -1
ContainsDate(rows) == \E i \in 1..Min(Len(rows), 5) : rows[i].time.kind = "full"

\* lines 80-92: pd.to_datetime of the cell, or of day_str + ' ' + cell
ToDatetime(cell, day_str, contains_date) ==
    IF contains_date
    THEN IF cell.kind = "full" THEN Stamp(cell.day, cell.minute) ELSE NaT
    ELSE IF cell.kind = "tod" THEN Stamp(day_str, cell.minute) ELSE NaT

\* lines 95-103: when most cells are NaT and some cell is a number, every
\* cell is read as seconds after midnight of day_str
ToNumericOK(cell) == cell.kind = "secs"
ParseTimes(rows, day_str) ==
    LET first == [i \in 1..Len(rows) |->
                     ToDatetime(rows[i].time, day_str, ContainsDate(rows))]
        nat == Cardinality({i \in 1..Len(rows) : first[i] = NaT})
    IN  IF 2 * nat > Len(rows) /\ \E i \in 1..Len(rows) : ToNumericOK(rows[i].time)
        THEN [i \in 1..Len(rows) |->
                 IF ToNumericOK(rows[i].time)
                 THEN Stamp(day_str, rows[i].time.secs \div 60)
                 ELSE NaT]
        ELSE first

\* lines 111-135: the Chinese labels, then the capitalised English ones, then
\* any label whose lower-case form is a standard name that is still missing
ZhNames == {"zh_open", "zh_high", "zh_low", "zh_close", "zh_volume"}
ZhToEn(c) ==
    CASE c = "zh_open" -> "open"
      [] c = "zh_high" -> "high"
      [] c = "zh_low" -> "low"
      [] c = "zh_close" -> "close"
      [] c = "zh_volume" -> "volume"
RenameColumns(cols) ==
    LET fix(c) ==
            IF c \in ZhNames THEN ZhToEn(c)
            ELSE IF \E k \in 1..Len(Ohlcv) :
                       Ohlcv[k] \notin cols /\ c = Capitalize(Ohlcv[k])
                 THEN Lower(c)
                 ELSE c
        cols1 == {fix(c) : c \in cols}
        fallback(c) ==
            IF \E k \in 1..Len(Ohlcv) : Ohlcv[k] \notin cols1 /\ Lower(c) = Ohlcv[k]
            THEN Lower(c)
            ELSE c
    IN  {fallback(c) : c \in cols1}

\* parse_and_normalize_minute_df(df_raw, day_str), lines 33-152.  A table is
\* its set of value columns and its rows; a row keeps its time, a number id
\* that tells rows apart and px, which says whether its price cells are
\* numbers ("num") or not ("bad").
parse_and_normalize_minute_df(p, day_str) ==
    IF p = NoneTable \/ Empty(p) THEN NoneTable
    ELSE
      LET found == FindTimeCol(p.columns)
          cols == IF found = "" THEN ResetIndex(p) ELSE p.columns
          datetime_col == IF found = "" THEN FindTimeCol(cols) ELSE found
      IN  IF datetime_col = "" THEN NoneTable
          ELSE
            LET times == ParseTimes(p.rows, day_str)
                idx == SelectSeq([i \in 1..Len(p.rows) |-> i],
                                 LAMBDA i : times[i] # NaT)
                parsed == [k \in 1..Len(idx) |->
                              [datetime |-> times[idx[k]],
                               id |-> p.rows[idx[k]].id,
                               px |-> p.rows[idx[k]].px]]
            IN  IF parsed = <<>> THEN NoneTable
                ELSE
                  LET named == RenameColumns(cols \cup {"datetime"})
                      keep == {c \in Range(Ohlcv) : c \in named}
                      sorted == SortIndex(parsed)
                      price_cols == keep \cap PriceNames
                      kept == IF price_cols = {} THEN sorted
                              ELSE SelectSeq(sorted, LAMBDA r : r.px = "num")
                  IN  [kind |-> "df", columns |-> keep, rows |-> kept]

\* ---- what the provider can return ----
FeedDates == {FirstDate, Strftime(Ordinal(FirstDate) + 1)}
TimeCells(kind) ==
    CASE kind = "full" ->
           {[kind |-> "full", day |-> d, minute |-> MorningStart] : d \in FeedDates}
      [] kind = "tod" ->
           {[kind |-> "tod", minute |-> m] : m \in {MorningStart, MorningStart + 1}}
      [] kind = "secs" ->
           {[kind |-> "secs", secs |-> MorningStart * 60]}
RowsOf(kind) ==
    LET cells == TimeCells(kind) \cup {[kind |-> "junk"]}
        choice == cells \X {"num", "bad"}
    IN  UNION {{[i \in 1..len |->
                   [time |-> f[i][1], id |-> i, px |-> f[i][2]]] :
                f \in [1..len -> choice]} : len \in 0..MaxFeedRows}
TimeLabels == {"datetime", "Time", "zh_time", "date", "stamp"}
PriceLabels ==
    {{}, {"open", "high", "low", "close"}, {"zh_open", "zh_close"},
     {"Open", "Close"}, {"CLOSE"}}
VolumeLabels == {{}, {"zh_volume"}}
TimeSources ==
    {[col |-> {c}, index_name |-> ""] : c \in TimeLabels}
      \cup {[col |-> {}, index_name |-> nm] : nm \in {"", "Time"}}
Payloads ==
    {NoneTable} \cup
    {[kind |-> "df", columns |-> src.col \cup pl \cup vl,
      index_name |-> src.index_name, rows |-> rows] :
        src \in TimeSources, pl \in PriceLabels, vl \in VolumeLabels,
        rows \in UNION {RowsOf(kind) : kind \in {"full", "tod", "secs"}}}

\* ---- download_minute_range_and_save, lines 155-210 ----
\* the state on entry to the loop over the prefixes (line 164)
FeedStart ==
    /\ feed_pc = "fetch"
    /\ prefixes \in {<<"sh", "sz">>, <<"sz", "sh">>}
    /\ prefix_i = 1
    /\ \E k \in 0..(FeedSpan - 1) :
         feed_days = bdate_range(FirstDate, Strftime(Ordinal(FirstDate) + k))
    /\ day_i = 1
    /\ df_raw = Unbound /\ df_day = Unbound
    /\ frames = <<>> /\ failed_days = <<>> /\ saved = Unbound

\* line 174: the provider returns a payload or raises (lines 193-196)
Fetch ==
    /\ feed_pc = "fetch" /\ day_i <= Len(feed_days)
    /\ \/ /\ df_raw' \in Payloads
          /\ feed_pc' = "parse"
          /\ UNCHANGED <<day_i, failed_days>>
       \/ /\ failed_days' = Append(failed_days, feed_days[day_i])
          /\ day_i' = day_i + 1
          /\ UNCHANGED <<df_raw, feed_pc>>
    /\ UNCHANGED <<prefixes, prefix_i, feed_days, df_day, frames, saved,
                   envVars, fixVars>>

\* line 176
Parse ==
    /\ feed_pc = "parse"
    /\ df_day' = parse_and_normalize_minute_df(df_raw, feed_days[day_i])
    /\ feed_pc' = "account"
    /\ UNCHANGED <<prefixes, prefix_i, feed_days, day_i, df_raw, frames,
                   failed_days, saved, envVars, fixVars>>

\* line 185: the rows of the table whose date is d
OfDay(tab, d) ==
    [tab EXCEPT !.rows =
        SelectSeq(tab.rows, LAMBDA r : r.datetime \div MinutesPerDay = Ordinal(d))]

\* lines 177-192: the day is counted as failed or its table joins frames
Account ==
    /\ feed_pc = "account"
    /\ LET d == feed_days[day_i]
       IN  IF df_day = NoneTable \/ Empty(df_day) \/ Empty(OfDay(df_day, d))
           THEN /\ failed_days' = Append(failed_days, d)
                /\ UNCHANGED frames
           ELSE /\ frames' = Append(frames, OfDay(df_day, d))
                /\ UNCHANGED failed_days
    /\ day_i' = day_i + 1
    /\ df_raw' = Unbound /\ df_day' = Unbound
    /\ feed_pc' = "fetch"
    /\ UNCHANGED <<prefixes, prefix_i, feed_days, saved, envVars, fixVars>>

\* line 201: rows whose time was seen earlier are dropped
DropDuplicated(rows) ==
    LET idx == SelectSeq([i \in 1..Len(rows) |-> i],
                         LAMBDA i : \A j \in 1..(i - 1) :
                                       rows[j].datetime # rows[i].datetime)
    IN  [k \in 1..Len(idx) |-> rows[idx[k]]]

\* lines 198-206: pd.concat(frames).sort_index() without the duplicates
Merge(fs) ==
    [kind |-> "df",
     columns |-> UNION {fs[i].columns : i \in 1..Len(fs)},
     rows |-> DropDuplicated(SortIndex(
                  Concatenate([i \in 1..Len(fs) |-> fs[i].rows])))]

\* lines 198-210, after the days of a prefix: save and return, go to the
\* next prefix, or raise
EndPrefix ==
    /\ feed_pc = "fetch" /\ day_i > Len(feed_days)
    /\ IF frames # <<>>
       THEN /\ saved' = Merge(frames)
            /\ feed_pc' = "return"
            /\ UNCHANGED <<prefix_i, day_i, frames, failed_days>>
       ELSE IF prefix_i < Len(prefixes)
       THEN /\ prefix_i' = prefix_i + 1
            /\ day_i' = 1
            /\ frames' = <<>> /\ failed_days' = <<>>
            /\ UNCHANGED <<saved, feed_pc>>
       ELSE /\ feed_pc' = "RuntimeError"
            /\ UNCHANGED <<prefix_i, day_i, frames, failed_days, saved>>
    /\ UNCHANGED <<prefixes, feed_days, df_raw, df_day, envVars, fixVars>>

InitFeed == FeedStart /\ EnvIdle /\ FixIdle

NextFeed == Fetch \/ Parse \/ Account \/ EndPrefix

SpecFeed == InitFeed /\ [][NextFeed]_vars

----------------------------------------------------------------------------
(* MarketEnv: the claims *)

\* the position a step of the episode starts from: flat on the first step,
\* afterwards the target of the step before it
HeldBefore(k) == IF k = 1 THEN 0 ELSE pos_map(ep[k - 1].action)

\* (prices[i] - prices[i-1]) / prices[i-1], indices as the code writes them
ReturnAt(i) ==
    Rat(PyIndex(prices, i) - PyIndex(prices, i - 1), PyIndex(prices, i - 1))

\* C1: a step() entered with done = true raises RuntimeError whatever the
\* action is, returns nothing, and leaves t, position, last_price and done
\* as they were.
C1_StepWhileDoneRaises ==
    [][(done /\ res'.op = "step")
         => /\ res'.kind = "RuntimeError"
            /\ DOMAIN res' = {"op", "kind", "action"}
            /\ UNCHANGED <<t, position, last_price, done, ep>>]_vars

C1_Witness ==
    /\ res.op = "step" /\ res.kind = "RuntimeError" /\ res.action = 1
    /\ prev.done /\ done /\ position = -1

\* C2: a constructed simulator has window <= t, its done flag is true exactly
\* when t >= T, and no step() reads prices[t] with t >= T (IndexError).
C2_DoneIffPastEnd ==
    obj = "live"
      => /\ window <= t
         /\ done <=> (t >= T)
         /\ ~(res.op = "step" /\ res.kind = "IndexError")

\* C3: the k-th step since reset() consumes index window + k - 1 and returns
\* reward = held * return - cost, held being the position before the step,
\* and info carries exactly these two terms.
C3_RewardFormula ==
    \A k \in 1..Len(ep) :
        LET r == ep[k]
            held == HeldBefore(k)
            pnl == RScale(held, ReturnAt(r.index))
            cost == RScale(Abs(pos_map(r.action) - held), transaction_cost)
        IN  /\ r.index = window + k - 1
            /\ REq(r.reward, RSub(pnl, cost))
            /\ REq(r.info.pnl, pnl)
            /\ REq(r.info.tc, cost)
            /\ (k = Len(ep) /\ res.kind = "step") => held = prev.position

C3_Witness ==
    /\ Len(ep) >= 2
    /\ ep[1].action = 1 /\ ep[2].action = 2
    /\ ep[2].info.pnl.n # 0
    /\ transaction_cost.n # 0

\* C4: the cost of a step is |target - held| * transaction_cost: nothing when
\* the position stays, one unit to or from flat, two units between long and
\* short; flat, long, short costs one unit and then two.
C4_CostByChange ==
    /\ \A k \in 1..Len(ep) :
        LET held == HeldBefore(k)
            target == pos_map(ep[k].action)
            units == CASE target = held -> 0
                       [] target # held /\ (target = 0 \/ held = 0) -> 1
                       [] OTHER -> 2
        IN  /\ REq(ep[k].info.tc, RScale(units, transaction_cost))
            /\ target = held => ep[k].info.tc.n = 0
    /\ (Len(ep) >= 2 /\ ep[1].action = 1 /\ ep[2].action = 2)
         => /\ REq(ep[1].info.tc, transaction_cost)
            /\ REq(ep[2].info.tc, RScale(2, transaction_cost))

C4_Witness ==
    /\ Len(ep) = 3
    /\ ep[1].action = 1 /\ ep[2].action = 2 /\ ep[3].action = 2
    /\ ep[2].info.tc.n = 2 /\ ep[3].info.tc.n = 0
    /\ transaction_cost.n = 1

\* the episode the actions acts produce from the fields f
RECURSIVE Replay(_, _)
Replay(f, acts) ==
    IF acts = <<>> THEN <<>>
    ELSE LET r == StepFn(f, Head(acts))
         IN  <<r.res>> \o Replay(r.fields, Tail(acts))

FreshFields ==
    [t |-> window, position |-> 0,
     last_price |-> PyIndex(prices, window - 1), done |-> FALSE]

\* C5: reset() from any state leaves t = window, position = 0,
\* last_price = prices[window-1], done = false and returns the first window
\* rows of features (as float32); the steps taken since are those the same
\* actions produce from the freshly constructed state.
C5_ResetRestores ==
    /\ res.op = "reset"
         => /\ Fields = FreshFields
            /\ res.kind = "obs"
            /\ res.obs = AsFloat32(SubSeq(features, 1, window))
            /\ ep = <<>>
    /\ obj = "live"
         => /\ ep = Replay(FreshFields, [k \in 1..Len(ep) |-> ep[k].action])
            /\ (res.op = "step" /\ ep = <<>>)
                 => res = StepFn(FreshFields, res.action).res

C5_Witness ==
    /\ res.op = "reset"
    /\ prev.done /\ prev.position = -1 /\ prev.t > window /\ prev.last_price # last_price
    /\ window >= 1


----------------------------------------------------------------------------
(* fix_integer_datetime_to_ts.py: the claims *)

SessionMinutes == (MorningStart..MorningEnd) \cup (AfternoonStart..AfternoonEnd)

\* the Monday-Friday days of the requested range, as day numbers
RangeWeekdays ==
    {z \in Ordinal(start_date)..Ordinal(end_date) : Weekday(z) \notin {5, 6}}

\* the trading minute after the trading minute x
NextTradingMinute(x) ==
    LET z == x \div MinutesPerDay
        m == x % MinutesPerDay
    IN  IF m = MorningEnd THEN z * MinutesPerDay + AfternoonStart
        ELSE IF m = AfternoonEnd
        THEN (IF Weekday(z) = 4 THEN z + 3 ELSE z + 1) * MinutesPerDay + MorningStart
        ELSE x + 1

BaseBuilt == pc \in {"extend", "check", "written", "IndexError"}
Returned == pc \in {"check", "written"}

CeilDiv(a, b) == IF a <= 0 THEN 0 ELSE (a + b - 1) \div b

\* C6: over a range with a business day the base calendar is strictly
\* increasing and holds, for each Monday-Friday day of the range, exactly the
\* minutes 09:30..11:30 and 13:00..15:00 (242 a day): nothing of the lunch
\* gap, nothing on a Saturday or Sunday.
C6_BaseCalendar ==
    (BaseBuilt /\ RangeWeekdays # {})
      => /\ StrictlyIncreasing(base)
         /\ Range(base) = {z * MinutesPerDay + m : z \in RangeWeekdays, m \in SessionMinutes}
         /\ Len(base) = 242 * Cardinality(RangeWeekdays)
         /\ \A i \in 1..Len(base) :
              /\ base[i] % MinutesPerDay \notin (MorningEnd + 1)..(AfternoonStart - 1)
              /\ Weekday(base[i] \div MinutesPerDay) < 5

C6_Witness ==
    /\ pc = "check"
    /\ start_date = <<2025, 12, 26>> /\ end_date = <<2025, 12, 29>>
    /\ Len(days) = 2 /\ Len(base) = 484 /\ n = 484

\* C7: for L >= 1 and a range with a business day build_minutes_sequence
\* returns exactly L strictly increasing timestamps cut from a calendar of at
\* least L: the base calendar's first L, or the base calendar followed by the
\* sessions of the next weekdays, each appended day later than all before it.
C7_ExactLength ==
    (Returned /\ n >= 1 /\ RangeWeekdays # {})
      => /\ Len(ts) = n
         /\ full_len >= n
         /\ StrictlyIncreasing(ts)
         /\ n <= Len(base) => ts = SubSeq(base, 1, n) /\ cur_days = <<>>
         /\ n > Len(base)
              => /\ SubSeq(ts, 1, Len(base)) = base
                 /\ SubSeq(cur_days, 1, Len(days)) = days
                 /\ Len(cur_days) > Len(days)
                 /\ \A i \in Len(days)..(Len(cur_days) - 1) :
                      /\ Ordinal(cur_days[i + 1]) > Ordinal(cur_days[i])
                      /\ Weekday(Ordinal(cur_days[i + 1])) < 5
                      /\ \A z \in (Ordinal(cur_days[i]) + 1)..(Ordinal(cur_days[i + 1]) - 1) :
                           Weekday(z) >= 5
         /\ ts[1] = base[1]
         /\ \A i \in 1..(n - 1) : ts[i + 1] = NextTradingMinute(ts[i])

C7_Witness ==
    /\ pc = "check"
    /\ start_date = <<2025, 12, 26>> /\ end_date = <<2025, 12, 26>>
    /\ n = 485 /\ Len(ts) = 485
    /\ cur_days = <<<<2025, 12, 26>>, <<2025, 12, 29>>, <<2025, 12, 30>>>>

\* C8: started on a non-empty list of days, the extension loop returns; every
\* iteration that does not return appends one weekday later than the last and
\* adds one session of 242 minutes, so at most ceil((L - base) / 242) days are
\* appended.
C8_LoopTerminates ==
    /\ [](((pc = "extend" \/ Returned) /\ days # <<>> /\ cur_days # <<>>)
            => Len(cur_days) - Len(days) <= CeilDiv(n - Len(base), 242))
    /\ [][(pc = "extend" /\ pc' = "extend")
            => /\ Len(cur_days') = Len(cur_days) + 1
               /\ SubSeq(cur_days', 1, Len(cur_days)) = cur_days
               /\ Weekday(Ordinal(Last(cur_days'))) < 5
               /\ Ordinal(Last(cur_days')) > Ordinal(Last(cur_days))
               /\ Len(trading_minutes_for_days(cur_days'))
                    = Len(trading_minutes_for_days(cur_days)) + 242]_vars
    /\ ((pc = "extend" /\ cur_days # <<>>) ~> (pc = "check"))

C8_Witness ==
    /\ pc = "check"
    /\ days # <<>>
    /\ Len(cur_days) = Len(days) + 2
    /\ n - Len(base) > 242

\* C9: over an empty base range (start after end, or weekend days only) the
\* run ends in a reported failure for every row count: it does not loop, it
\* builds no timestamp, and it writes nothing.
C9_EmptyRangeFails ==
    (BaseBuilt /\ RangeWeekdays = {})
      => /\ base = <<>> /\ ts = <<>>
         /\ pc # "written"

\* C10: the table written has the N rows of the input in their order, row i
\* carrying timestamp i of the calendar built and its other values untouched,
\* whatever the integers of the old column were; the timestamps are strictly
\* increasing, and sorting moved nothing.
C10_RebindByPosition ==
    pc = "written"
      => /\ Len(out) = n
         /\ Len(ts) = n
         /\ \A i \in 1..n :
              /\ out[i].datetime = ts[i]
              /\ out[i].close = df[i].close
              /\ DOMAIN out[i] = DOMAIN df[i]
         /\ \A i \in 1..(n - 1) : out[i].datetime < out[i + 1].datetime
         /\ out = [i \in 1..n |-> [df[i] EXCEPT !.datetime = ts[i]]]

C10_Witness ==
    /\ pc = "written"
    /\ n = 243 /\ df[1].datetime = IntCell(242)
    /\ out[1].datetime = Stamp(<<2025, 12, 29>>, MorningStart)
    /\ out[243].datetime = Stamp(<<2025, 12, 30>>, MorningStart)
    /\ out[243].close = CloseOf(243)

\* the time column holds integers only, in non-decreasing or non-increasing order
IntegerMonotonic(col) ==
    /\ \A i \in 1..Len(col) : col[i].k = "int"
    /\ \/ \A i \in 1..(Len(col) - 1) : col[i].v <= col[i + 1].v
       \/ \A i \in 1..(Len(col) - 1) : col[i].v >= col[i + 1].v

\* C11: a 'datetime' column that is not an integer-like monotonic sequence
\* (a value that is no integer, integers out of order such as 5,3,9, integers
\* in the first ten rows only) ends the run in the validation error: the
\* calendar is not built and nothing is written.
C11_RejectsNonIntegerSequence ==
    (pc # "read" /\ "datetime" \in columns
       /\ ~IntegerMonotonic([i \in 1..Len(df) |-> df[i].datetime]))
      => pc = "SystemExit" /\ out = <<>>


\* C13: with window < T an episode has exactly T - window successful steps:
\* step k consumes index window + k - 1, returns done = true on the last step
\* only, and returns the window of features ending at the incremented t (as
\* float32) on every step but the last, which returns zeros.
C13_EpisodeLength ==
    (obj = "live" /\ window < T)
      => /\ Len(ep) <= T - window
         /\ done <=> (Len(ep) = T - window)
         /\ \A k \in 1..Len(ep) :
              LET r == ep[k]
                  last == (k = T - window)
              IN  /\ r.index = window + k - 1
                  /\ r.done <=> last
                  /\ Len(r.obs) = window
                  /\ last => \A i \in 1..window : r.obs[i] = 0
                  /\ ~last => \A i \in 1..window : r.obs[i] = Float32(features[k + i])
         /\ (res.op = "step" /\ res.action \in PosMapKeys /\ ~prev.done)
              => (res.kind = "step" /\ res = ep[Len(ep)])

C13_Witness ==
    /\ T = 3 /\ window = 1 /\ done /\ Len(ep) = 2
    /\ ep[1].obs = <<1>> /\ ~ep[1].done
    /\ ep[2].obs = <<0>> /\ ep[2].done
    /\ was_reset

----------------------------------------------------------------------------
(* download_akshare_minute.py: the claims *)

\* the payloads the parser has nothing to make a table from: no payload or an
\* empty one, no column or index with a time label, no cell that parses as a
\* time, or none of open/high/low/close under any of their labels
NoTimeColumn(p) == FindTimeCol(p.columns) = "" /\ FindTimeCol(ResetIndex(p)) = ""
NoParseableTime(p, d) == \A i \in 1..Len(p.rows) : ParseTimes(p.rows, d)[i] = NaT
NoPriceColumn(p) == RenameColumns(p.columns) \cap PriceNames = {}
Unusable(p, d) ==
    \/ p = NoneTable
    \/ Empty(p)
    \/ NoTimeColumn(p)
    \/ NoParseableTime(p, d)
    \/ NoPriceColumn(p)

\* C12: parse_and_normalize_minute_df returns None for every payload that is
\* empty, has no recognisable time column, has no parseable time value or is
\* missing all price columns; a table it returns always has a price column;
\* and the per-day caller counts the day of such a payload as failed and does
\* not add it to frames, so every table in frames has a price column.
C12_NullForUnusablePayload ==
    /\ feed_pc = "account" =>
         /\ Unusable(df_raw, feed_days[day_i]) => df_day = NoneTable
         /\ df_day # NoneTable => df_day.columns \cap PriceNames # {}
    /\ \A i \in 1..Len(frames) : frames[i].columns \cap PriceNames # {}
    /\ feed_pc = "fetch" => Len(frames) + Len(failed_days) = day_i - 1

====
